---- MODULE Spec2Model ----
(***************************************************************************)
(* Model of MeasurementSystem (src/main.py): the calibration / measurement *)
(* state machine behind the microscope measurement window.                 *)
(*                                                                         *)
(* Every Tk callback is one action.  The two dialogs are non-modal         *)
(* Toplevel windows (no grab_set, no wait_window), so the canvas keeps     *)
(* receiving pointer events while prompts are open and several prompts can *)
(* be pending at once: `dialogs` is the list of open prompts, each holding *)
(* the values its closure captured.                                        *)
(*                                                                         *)
(* Environment assumption: there is one pointer.  While button 1 is held   *)
(* on the canvas no button, entry or dialog is operated; acquisition ticks *)
(* interleave freely.                                                      *)
(*                                                                         *)
(* Abstractions.  A frame is identified by the number of the read that     *)
(* produced it (0 stands for None).  frame_rgb is rendered from self.frame *)
(* in the same tick that may replace self.frame, so its base image is      *)
(* always self.frame.  A snapshot file is recorded by its path and by the  *)
(* record it was written for, not by its pixels.  Floats are exact reals:  *)
(* a pixel distance is kept as its sign and the square of its magnitude, a *)
(* calibration factor as the quotient it was computed from.  length_in and *)
(* timestamp of a measurement are carried unchanged from pointer-up to the *)
(* log row and decide nothing; they are left out.                          *)
(***************************************************************************)
EXTENDS Integers, Sequences, FiniteSets, TLC

\* ---------------------------------------------------------------- bounds
MaxFrames == 2
MaxRecords == 3
MaxDialogs == 2
\* pointer coordinates run over 0..GridMax when distances are checked
GridMax == 2

\* ------------------------------------------------------- program constants
\* rendered size of the canvas (winfo_width / winfo_height), scaled down
CanvasW == 2
CanvasH == 2
\* native size of the frames the camera delivers (frame_rgb.shape), scaled down
CamW == 4
CamH == 2

Options == {"inkframe_cal", "inkframe_test", "trad_cal", "trad_test"}
DefaultOption == "inkframe_cal"

\* ------------------------------------------------------------ input sets
\* display points the pointer events carry
Points == {<<0, 0>>, <<1, 0>>, <<0, 1>>}
\* what the operator types into the Machine entry, picks in the combobox,
\* (two of Options), and types into the known-length entry of the calibration
\* dialog
Machines == {"", "M1"}
OptionChoices == {"inkframe_cal", "inkframe_test"}
LengthTexts == {"abc", "0", "1", "-1"}

NoPoint == <<-1, -1>>
NoFrame == 0

\* -------------------------------------------------------------- floats
\* a signed pixel distance: value = (neg ? -1 : 1) * sqrt(sq) / (CanvasW*CanvasH)
Dist(neg, sq) == [neg |-> neg, sq |-> sq]

\* an Optional[float]: kind "none" is Python's None; "fin" is the finite non-zero
\* value (neg ? -1 : 1) * num * CanvasW * CanvasH / sqrt(sq)
Float(kind, neg, num, sq) == [kind |-> kind, neg |-> neg, num |-> num, sq |-> sq]
NoneF == Float("none", FALSE, 0, 0)

Abs(x) == IF x < 0 THEN -x ELSE x

\* float(length_var.get()): the texts float() accepts, and the value it returns
IsNumeric(text) == text \in {"0", "1", "2", "-1"}

ParseLength(text) ==
    CASE text = "0" -> 0
      [] text = "1" -> 1
      [] text = "2" -> 2
      [] text = "-1" -> -1

\* known_length / pixels, pixels a numpy float64: division by zero gives
\* inf or nan (a RuntimeWarning), never an exception
Divide(k, d) ==
    IF d.sq = 0
    THEN IF k = 0 THEN Float("nan", FALSE, 0, 0)
                  ELSE Float("inf", k < 0, 0, 0)
    ELSE IF k = 0 THEN Float("zero", d.neg, 0, 0)
                  ELSE Float("fin", (k < 0) # d.neg, Abs(k), d.sq)

\* `if x` / `not x` on an Optional[float]: None and +-0.0 are falsy, nan is truthy
Truthy(f) == f.kind \notin {"none", "zero"}

\* ---------------------------------------------------------- calibration.txt
Missing == [kind |-> "missing", val |-> NoneF]
Empty == [kind |-> "empty", val |-> NoneF]
\* str(self.calibration_factor): repr of a float, which float() reads back exactly
StrOfFloat(f) == [kind |-> "text", val |-> f]

\* float(f.read().strip()) with FileNotFoundError and ValueError caught
load_calibration(file) == IF file.kind = "text" THEN file.val ELSE NoneF

VARIABLES
    feed,                    \* "closed": camera not opened, no tick scheduled;
                             \* "live": update_camera reschedules itself;
                             \* "stopped": update_camera raised, loop ended
    frame,                   \* self.frame
    original_size,           \* <<self.original_width, self.original_height>>
    calibration_factor,      \* self.calibration_factor
    measuring,               \* self.measuring
    calibrating,             \* self.calibrating
    start_point,             \* self.start_point
    current_point,           \* self.current_point
    measurements,            \* self.measurements
    measurement_in_progress, \* self.measurement_in_progress
    machine_var,             \* self.machine_var
    option_var,              \* self.option_var
    csv_rows,                \* rows of measurements.csv after the header
    pictures,                \* files under pictures/<machine>/<option>/<n>.png
    calibration_file,        \* calibration.txt
    dialogs,                 \* open Toplevel prompts, oldest first
    pointer_down             \* button 1 is held on the canvas

vars == <<feed, frame, original_size, calibration_factor, measuring, calibrating,
          start_point, current_point, measurements, measurement_in_progress,
          machine_var, option_var, csv_rows, pictures, calibration_file, dialogs,
          pointer_down>>

persisted == <<csv_rows, pictures, calibration_file>>

\* ------------------------------------------------------------- helpers
Measurement(machine, number, option) ==
    [machine |-> machine, measurement_number |-> number, option |-> option]
NoMeasurement == Measurement("", 0, "")

\* an open prompt and what its closure captured
CalDialog(pixels) ==
    [kind |-> "calibration", pixels |-> pixels, measurement |-> NoMeasurement]
SaveDialog(m) ==
    [kind |-> "save", pixels |-> Dist(FALSE, 0), measurement |-> m]

Remove(s, i) == [j \in 1..(Len(s) - 1) |-> IF j < i THEN s[j] ELSE s[j + 1]]

\* calculate_distance: both points are scaled to native coordinates
\* (x * original_width / canvas width, y * original_height / canvas height);
\* the differences are compared and squared over the common denominator
\* CanvasW * CanvasH
ScaledDx(p1, p2) == (p2[1] - p1[1]) * original_size[1] * CanvasH
ScaledDy(p1, p2) == (p2[2] - p1[2]) * original_size[2] * CanvasW

\* calculate_distance with `x_dist >= y_dist`: a tie counts as horizontal
calculate_distance_TieHorizontal(p1, p2) ==
    LET dx == ScaledDx(p1, p2)
        dy == ScaledDy(p1, p2)
        sq == dx * dx + dy * dy
    IN  IF Abs(dx) >= Abs(dy)
        THEN IF dx < 0 THEN Dist(TRUE, sq) ELSE Dist(FALSE, sq)
        ELSE IF dy < 0 THEN Dist(TRUE, sq) ELSE Dist(FALSE, sq)

calculate_distance(p1, p2) ==
    LET dx == ScaledDx(p1, p2)
        dy == ScaledDy(p1, p2)
        sq == dx * dx + dy * dy
    IN  IF Abs(dx) > Abs(dy)
        THEN IF dx < 0 THEN Dist(TRUE, sq) ELSE Dist(FALSE, sq)
        ELSE IF dy < 0 THEN Dist(TRUE, sq) ELSE Dist(FALSE, sq)

\* NextNumber with the option test lost: counts every record of the machine
NextNumber_AnyOption(ms, machine, option) ==
    Cardinality({i \in 1..Len(ms) : ms[i].machine = machine}) + 1

\* len([m for m in self.measurements if m['machine'] == ... and m['option'] == ...]) + 1
NextNumber(ms, machine, option) ==
    Cardinality({i \in 1..Len(ms) : ms[i].machine = machine /\ ms[i].option = option}) + 1

\* a snapshot file: where it lies and (history) the record it was written for
Picture(machine, option, number, m) ==
    [machine |-> machine, option |-> option, number |-> number, of |-> m]

SamePath(p, q) == p.machine = q.machine /\ p.option = q.option /\ p.number = q.number

\* cv2.imwrite to a path: the file is created or overwritten
WritePicture(pics, new) == {p \in pics : ~SamePath(p, new)} \cup {new}

\* ------------------------------------------------------------------ Init
\* calibration.txt as a first start finds it: absent, or left by an earlier run
\* that calibrated 1 in over the gesture (0,0) -> (1,0)
InitFiles == {Missing, StrOfFloat(Float("fin", FALSE, 1, 64))}

\* __init__: fields cleared, camera opened (or not) and read once, calibration
\* loaded from calibration.txt, original_width/height zeroed last
Init ==
    /\ feed \in {"closed", "live"}
    /\ frame \in (IF feed = "live" THEN {NoFrame, 1} ELSE {NoFrame})
    /\ original_size = <<0, 0>>
    /\ calibration_file \in InitFiles
    /\ calibration_factor = load_calibration(calibration_file)
    /\ measuring = FALSE
    /\ calibrating = FALSE
    /\ start_point = NoPoint
    /\ current_point = NoPoint
    /\ measurements = <<>>
    /\ measurement_in_progress = FALSE
    /\ machine_var = ""
    /\ option_var = DefaultOption
    /\ csv_rows = <<>>
    /\ pictures = {}
    /\ dialogs = <<>>
    /\ pointer_down = FALSE

\* --------------------------------------------------------------- actions
\* update_camera, one tick.  ret = False changes nothing.  With a frame read:
\* self.frame is replaced unless measurement_in_progress; cv2.cvtColor(None)
\* raises when no frame was ever stored, which ends the loop before it is
\* rescheduled; otherwise the native size is recorded.  (bound: the camera
\* delivers MaxFrames frames)
update_camera(ret) ==
    /\ feed = "live"
    /\ IF ~ret
       THEN UNCHANGED <<feed, frame, original_size>>
       ELSE IF measurement_in_progress
            THEN IF frame = NoFrame
                 THEN /\ feed' = "stopped"
                      /\ UNCHANGED <<frame, original_size>>
                 ELSE /\ original_size' = <<CamW, CamH>>
                      /\ UNCHANGED <<feed, frame>>
            ELSE /\ frame < MaxFrames
                 /\ frame' = frame + 1
                 /\ original_size' = <<CamW, CamH>>
                 /\ UNCHANGED feed
    /\ UNCHANGED <<calibration_factor, measuring, calibrating, start_point,
                   current_point, measurements, measurement_in_progress,
                   machine_var, option_var, persisted, dialogs, pointer_down>>

start_calibration ==
    /\ ~pointer_down
    /\ calibrating' = TRUE
    /\ measuring' = FALSE
    /\ UNCHANGED <<feed, frame, original_size, calibration_factor, start_point,
                   current_point, measurements, measurement_in_progress,
                   machine_var, option_var, persisted, dialogs, pointer_down>>

\* start_measurement with `self.calibrating = False` lost
start_measurement_KeepsCalibrating ==
    /\ ~pointer_down
    /\ IF ~Truthy(calibration_factor)
       THEN UNCHANGED <<measuring, calibrating>>
       ELSE /\ measuring' = TRUE
            /\ UNCHANGED calibrating
    /\ UNCHANGED <<feed, frame, original_size, calibration_factor, start_point,
                   current_point, measurements, measurement_in_progress,
                   machine_var, option_var, persisted, dialogs, pointer_down>>

start_measurement ==
    /\ ~pointer_down
    /\ IF ~Truthy(calibration_factor)
       THEN UNCHANGED <<measuring, calibrating>>
       ELSE /\ measuring' = TRUE
            /\ calibrating' = FALSE
    /\ UNCHANGED <<feed, frame, original_size, calibration_factor, start_point,
                   current_point, measurements, measurement_in_progress,
                   machine_var, option_var, persisted, dialogs, pointer_down>>

\* the operator edits the Machine entry / picks an option in the combobox
set_machine(text) ==
    /\ ~pointer_down
    /\ machine_var' = text
    /\ UNCHANGED <<feed, frame, original_size, calibration_factor, measuring,
                   calibrating, start_point, current_point, measurements,
                   measurement_in_progress, option_var, persisted, dialogs,
                   pointer_down>>

set_option(text) ==
    /\ ~pointer_down
    /\ option_var' = text
    /\ UNCHANGED <<feed, frame, original_size, calibration_factor, measuring,
                   calibrating, start_point, current_point, measurements,
                   measurement_in_progress, machine_var, persisted, dialogs,
                   pointer_down>>

\* (bound: no gesture is started once MaxDialogs prompts are open)
on_click(p) ==
    /\ ~pointer_down
    /\ Len(dialogs) < MaxDialogs
    /\ pointer_down' = TRUE
    /\ IF calibrating \/ measuring
       THEN /\ start_point' = p
            /\ current_point' = p
            /\ measurement_in_progress' = TRUE
       ELSE UNCHANGED <<start_point, current_point, measurement_in_progress>>
    /\ UNCHANGED <<feed, frame, original_size, calibration_factor, measuring,
                   calibrating, measurements, machine_var, option_var, persisted,
                   dialogs>>

on_drag(p) ==
    /\ pointer_down
    /\ IF (calibrating \/ measuring) /\ start_point # NoPoint
       THEN current_point' = p
       ELSE UNCHANGED current_point
    /\ UNCHANGED <<feed, frame, original_size, calibration_factor, measuring,
                   calibrating, start_point, measurements, measurement_in_progress,
                   machine_var, option_var, persisted, dialogs, pointer_down>>

\* handle_calibration: opens the known-length prompt; its closure holds pixels
handle_calibration(pixels) ==
    dialogs' = Append(dialogs, CalDialog(pixels))

\* handle_measurement: rejected without a usable factor or without a machine;
\* otherwise the record is built, numbered, and the save prompt opened
\* handle_measurement with the test of the Machine entry lost
handle_measurement_NoSubjectCheck(pixels) ==
    IF ~Truthy(calibration_factor)
    THEN UNCHANGED dialogs
    ELSE dialogs' = Append(dialogs, SaveDialog(Measurement(machine_var,
                NextNumber(measurements, machine_var, option_var), option_var)))

handle_measurement(pixels) ==
    IF ~Truthy(calibration_factor) \/ machine_var = ""
    THEN UNCHANGED dialogs
    ELSE dialogs' = Append(dialogs,
             SaveDialog(Measurement(machine_var,
                                    NextNumber(measurements, machine_var, option_var),
                                    option_var)))

on_release(p) ==
    /\ pointer_down
    /\ pointer_down' = FALSE
    /\ IF start_point # NoPoint /\ (calibrating \/ measuring)
       THEN IF calibrating
            THEN handle_calibration(calculate_distance(start_point, p))
            ELSE handle_measurement(calculate_distance(start_point, p))
       ELSE UNCHANGED dialogs
    /\ UNCHANGED <<feed, frame, original_size, calibration_factor, measuring,
                   calibrating, start_point, current_point, measurements,
                   measurement_in_progress, machine_var, option_var, persisted>>

\* Confirm button of calibration prompt i, with `text` in its entry
confirm(i, text) ==
    /\ ~pointer_down
    /\ i \in DOMAIN dialogs
    /\ dialogs[i].kind = "calibration"
    /\ IF ~IsNumeric(text)
       THEN UNCHANGED <<calibration_factor, calibration_file, dialogs, calibrating>>
       ELSE /\ calibration_factor' = Divide(ParseLength(text), dialogs[i].pixels)
            /\ calibration_file' = StrOfFloat(calibration_factor')
            /\ dialogs' = Remove(dialogs, i)
            /\ calibrating' = FALSE
    /\ UNCHANGED <<feed, frame, original_size, measuring, start_point,
                   current_point, measurements, measurement_in_progress,
                   machine_var, option_var, csv_rows, pictures, pointer_down>>

\* confirm_save of save prompt i (bound: the log takes MaxRecords rows).  outcome:
\*   "ok"        every write succeeds
\*   "log_fail"  open(self.csv_file, 'a') raises
\*   "dir_fail"  os.makedirs / cv2.imwrite raises after the row was written
\*   "img_fail"  cv2.imwrite returns False (nothing written, nothing raised)
SaveOutcomes == {"ok", "log_fail", "dir_fail", "img_fail"}

confirm_save(i, outcome) ==
    LET m == dialogs[i].measurement
        pic == Picture(machine_var, option_var, m.measurement_number, m)
    IN  /\ outcome \in {"dir_fail", "img_fail"} => frame # NoFrame
        /\ IF outcome = "log_fail"
           THEN UNCHANGED <<csv_rows, pictures, measurements>>
           ELSE /\ Len(csv_rows) < MaxRecords
                /\ csv_rows' = Append(csv_rows, m)
                /\ pictures' = IF outcome = "ok" /\ frame # NoFrame
                               THEN WritePicture(pictures, pic)
                               ELSE pictures
                /\ measurements' = IF outcome = "dir_fail"
                                   THEN measurements
                                   ELSE Append(measurements, m)

\* Save button of save prompt i: an exception in confirm_save leaves the flag
\* set and the prompt open
on_save(i, outcome) ==
    /\ ~pointer_down
    /\ i \in DOMAIN dialogs
    /\ dialogs[i].kind = "save"
    /\ confirm_save(i, outcome)
    /\ IF outcome \in {"log_fail", "dir_fail"}
       THEN UNCHANGED <<measurement_in_progress, dialogs>>
       ELSE /\ measurement_in_progress' = FALSE
            /\ dialogs' = Remove(dialogs, i)
    /\ UNCHANGED <<feed, frame, original_size, calibration_factor, measuring,
                   calibrating, start_point, current_point, machine_var,
                   option_var, calibration_file, pointer_down>>

\* on_cancel that commits the pending record before closing the prompt
on_cancel_Commits(i) ==
    /\ ~pointer_down
    /\ i \in DOMAIN dialogs
    /\ dialogs[i].kind = "save"
    /\ Len(csv_rows) < MaxRecords
    /\ csv_rows' = Append(csv_rows, dialogs[i].measurement)
    /\ measurements' = Append(measurements, dialogs[i].measurement)
    /\ measurement_in_progress' = FALSE
    /\ dialogs' = Remove(dialogs, i)
    /\ UNCHANGED <<feed, frame, original_size, calibration_factor, measuring,
                   calibrating, start_point, current_point, machine_var,
                   option_var, pictures, calibration_file, pointer_down>>

\* Cancel button of save prompt i
on_cancel(i) ==
    /\ ~pointer_down
    /\ i \in DOMAIN dialogs
    /\ dialogs[i].kind = "save"
    /\ measurement_in_progress' = FALSE
    /\ dialogs' = Remove(dialogs, i)
    /\ UNCHANGED <<feed, frame, original_size, calibration_factor, measuring,
                   calibrating, start_point, current_point, measurements,
                   machine_var, option_var, persisted, pointer_down>>

\* prompt i is closed through the window manager (the only way to dismiss the
\* calibration prompt without confirming): Toplevel's default handler destroys it
close_dialog(i) ==
    /\ ~pointer_down
    /\ i \in DOMAIN dialogs
    /\ dialogs' = Remove(dialogs, i)
    /\ UNCHANGED <<feed, frame, original_size, calibration_factor, measuring,
                   calibrating, start_point, current_point, measurements,
                   measurement_in_progress, machine_var, option_var, persisted,
                   pointer_down>>

DialogIds == 1..MaxDialogs

\* ------------------------------------------------------------ the program
\* every event the window can receive, in any order; Spec is the whole program,
\* the specifications after it are the parts of it that are enumerated
Commands ==
    \/ \E ret \in BOOLEAN : update_camera(ret)
    \/ start_calibration
    \/ start_measurement
    \/ \E text \in Machines : set_machine(text)
    \/ \E text \in OptionChoices : set_option(text)
    \/ \E p \in Points : on_drag(p)
    \/ \E p \in Points : on_release(p)
    \/ \E i \in DialogIds, text \in LengthTexts : confirm(i, text)
    \/ \E i \in DialogIds, outcome \in SaveOutcomes : on_save(i, outcome)
    \/ \E i \in DialogIds : on_cancel(i)
    \/ \E i \in DialogIds : close_dialog(i)

Next ==
    \/ \E p \in Points : on_click(p)
    \/ Commands

Spec == Init /\ [][Next]_vars

\* ----------------------------------------------------- operator scenarios
\* The product of the calibration inputs and the ledger contents is too large
\* to enumerate.  Each specification below runs the same handlers under an
\* operator who uses part of the window.

\* Measuring only: a factor is on file from an earlier run, the operator never
\* presses Calibrate, and every gesture starts and ends at the same point.
LedgerPoints == {<<0, 0>>}

LedgerCommands ==
    \/ \E ret \in BOOLEAN : update_camera(ret)
    \/ start_measurement
    \/ \E text \in Machines : set_machine(text)
    \/ \E text \in OptionChoices : set_option(text)
    \/ \E p \in LedgerPoints : on_release(p)
    \/ \E i \in DialogIds, outcome \in SaveOutcomes : on_save(i, outcome)
    \/ \E i \in DialogIds : on_cancel(i)
    \/ \E i \in DialogIds : close_dialog(i)

NextLedger ==
    \/ \E p \in LedgerPoints : on_click(p)
    \/ LedgerCommands

SpecLedger == Init /\ [][NextLedger]_vars

\* Measuring only, one gesture at a time: no pointer-down while a save prompt
\* is open.
SavePending == \E i \in DOMAIN dialogs : dialogs[i].kind = "save"

NextSerial ==
    \/ \E p \in LedgerPoints : ~SavePending /\ on_click(p)
    \/ LedgerCommands

SpecSerial == Init /\ [][NextSerial]_vars

\* Calibrating and switching modes: the Machine entry stays empty, so every
\* measuring gesture is rejected at pointer-up and no save prompt opens.
NextCalibration ==
    \/ \E ret \in BOOLEAN : update_camera(ret)
    \/ start_calibration
    \/ start_measurement
    \/ \E p \in Points : on_click(p)
    \/ \E p \in Points : on_drag(p)
    \/ \E p \in Points : on_release(p)
    \/ \E i \in DialogIds, text \in LengthTexts : confirm(i, text)
    \/ \E i \in DialogIds : close_dialog(i)

SpecCalibration == Init /\ [][NextCalibration]_vars

\* Drawing calibration gestures between any two points of a grid, one prompt
\* at a time, the prompts closed unanswered: every pair of points goes through
\* calculate_distance, before the first frame and after it.
Grid == (0..GridMax) \X (0..GridMax)

NextDistance ==
    \/ \E ret \in BOOLEAN : update_camera(ret)
    \/ start_calibration
    \/ \E p \in Grid : dialogs = <<>> /\ on_click(p)
    \/ \E p \in Grid : on_release(p)
    \/ \E i \in DialogIds : close_dialog(i)

SpecDistance == Init /\ [][NextDistance]_vars

\* Calibrating across process restarts.  __init__ of the new process finds the
\* files the old one left; everything in memory starts over.
StartUp(file) ==
    /\ feed' \in {"closed", "live"}
    /\ frame' \in (IF feed' = "live" THEN {NoFrame, 1} ELSE {NoFrame})
    /\ original_size' = <<0, 0>>
    /\ calibration_file' = file
    /\ calibration_factor' = load_calibration(file)
    /\ measuring' = FALSE
    /\ calibrating' = FALSE
    /\ start_point' = NoPoint
    /\ current_point' = NoPoint
    /\ measurements' = <<>>
    /\ measurement_in_progress' = FALSE
    /\ machine_var' = ""
    /\ option_var' = DefaultOption
    /\ dialogs' = <<>>
    /\ pointer_down' = FALSE
    /\ UNCHANGED <<csv_rows, pictures>>

\* the window is closed and the program started again
restart == StartUp(calibration_file)

\* confirm of calibration prompt i: the process dies after
\* open("calibration.txt", "w") has truncated the file and before the buffered
\* text reaches it (written at close); then the program is started again
crash_in_confirm(i, text) ==
    /\ ~pointer_down
    /\ i \in DOMAIN dialogs
    /\ dialogs[i].kind = "calibration"
    /\ IsNumeric(text)
    /\ StartUp(Empty)

NextRestart ==
    \/ NextCalibration
    \/ restart
    \/ \E i \in DialogIds, text \in LengthTexts : crash_in_confirm(i, text)

SpecRestart == Init /\ [][NextRestart]_vars

\* ------------------------------------------------------------------ claims
SamePair(a, b) == a.machine = b.machine /\ a.option = b.option

\* x > 0 on a float
IsPositive(f) == f.kind \in {"fin", "inf"} /\ ~f.neg

\* C1 (as claimed): no two records of the ledger with the same machine and the
\* same option carry the same measurement_number.
C1_UniqueSequenceNumbers ==
    \A i, j \in DOMAIN measurements :
        (i # j /\ SamePair(measurements[i], measurements[j]))
            => measurements[i].measurement_number # measurements[j].measurement_number

\* C2: with one gesture at a time, the k-th record the ledger holds for a
\* (machine, option) pair carries measurement_number k, whatever records of
\* other pairs lie in between.
C2_KthRecordGetsK ==
    \A i \in DOMAIN measurements :
        measurements[i].measurement_number =
            Cardinality({j \in 1..i : SamePair(measurements[j], measurements[i])})

\* three commits, the second for another option: the third is number 2
C2_Witness ==
    /\ Len(measurements) = 3
    /\ SamePair(measurements[1], measurements[3])
    /\ ~SamePair(measurements[1], measurements[2])
    /\ measurements[3].measurement_number = 2

\* C3: a step of on_cancel leaves the ledger, the log and the snapshots as they
\* were, and with them the number the next record of every pair will get.
C3_CancelAppendsNothing ==
    [][(\E i \in DialogIds : on_cancel(i)) =>
            /\ measurements' = measurements
            /\ csv_rows' = csv_rows
            /\ pictures' = pictures
            /\ \A m \in Machines, o \in OptionChoices :
                   NextNumber(measurements', m, o) = NextNumber(measurements, m, o)]_vars

\* A state after a cancel, with nothing committed.  start_point is set only by
\* on_click, which sets measurement_in_progress; the flag is cleared only by
\* on_save, which appends to the ledger, and by on_cancel.
C3_Witness ==
    /\ measuring
    /\ start_point # NoPoint
    /\ ~pointer_down
    /\ ~measurement_in_progress
    /\ dialogs = <<>>
    /\ measurements = <<>>
    /\ csv_rows = <<>>

\* C4 (as claimed): wherever the Measure button can be pressed, the step of
\* start_measurement leaves the mode flags as they were when the factor is
\* unset, and ends in Measuring when the factor is set.  (The rejected command
\* changes no variable, so the claim is stated on the step that is enabled.)
C4_BeginMeasurement ==
    ~pointer_down =>
        IF calibration_factor = NoneF
        THEN ENABLED (start_measurement /\ UNCHANGED <<measuring, calibrating>>)
        ELSE ENABLED (start_measurement /\ measuring' /\ ~calibrating')

\* C5 (as claimed): confirming a calibration prompt whose gesture measured 0
\* pixels leaves the factor and calibration.txt as they were, whatever is typed.
C5_ZeroDistanceRejected ==
    [][\A i \in DialogIds, text \in LengthTexts :
            (confirm(i, text) /\ dialogs[i].pixels.sq = 0) =>
                /\ calibration_factor' = calibration_factor
                /\ calibration_file' = calibration_file]_vars

\* C6 (as claimed): confirming a calibration with a positive known length over
\* a gesture of non-zero length stores a positive factor, whatever the
\* direction of the gesture.
C6_PositiveLengthPositiveFactor ==
    [][\A i \in DialogIds, text \in LengthTexts :
            (/\ confirm(i, text)
             /\ IsNumeric(text)
             /\ ParseLength(text) > 0
             /\ dialogs[i].pixels.sq # 0) => IsPositive(calibration_factor')]_vars

\* C7 (as claimed): once a frame has been acquired, no step replaces self.frame
\* while a gesture is being drawn in Calibrating or Measuring mode or while a
\* prompt is open.
C7_FrameHeld ==
    [][(/\ frame # NoFrame
        /\ dialogs # <<>> \/ (pointer_down /\ (calibrating \/ measuring)))
            => frame' = frame]_vars

\* C8 (as claimed): the log holds exactly the rows of the ledger, and every
\* snapshot belongs to a record of the ledger: a failed commit leaves nothing.
C8_StoresAgree ==
    /\ csv_rows = measurements
    /\ \A p \in pictures : \E i \in DOMAIN measurements : measurements[i] = p.of

\* C9 (as claimed): every record of the ledger has exactly one snapshot, lying
\* at pictures/<machine>/<option>/<number> of that record, and no two records
\* share one.
C9_OneSnapshotPerRecord ==
    /\ \A i \in DOMAIN measurements :
           LET m == measurements[i]
               mine == {p \in pictures : p.of = m}
           IN  /\ Cardinality(mine) = 1
               /\ \A p \in mine : /\ p.machine = m.machine
                                  /\ p.option = m.option
                                  /\ p.number = m.measurement_number
    /\ \A i, j \in DOMAIN measurements : i # j => measurements[i] # measurements[j]

\* C10 (as claimed): once calibration.txt holds a factor, a restart loads that
\* factor, and a crash while a newer factor is being persisted loads that
\* factor or the newer one.
C10_RestartLoadsPersisted ==
    [][calibration_file.kind = "text" =>
            /\ restart => calibration_factor' = calibration_file.val
            /\ \A i \in DialogIds, text \in LengthTexts :
                   crash_in_confirm(i, text) =>
                       calibration_factor' \in
                           {calibration_file.val,
                            Divide(ParseLength(text), dialogs[i].pixels)}]_vars

\* C11: the session is never Calibrating and Measuring at once; the mode is
\* Idle (neither flag), Calibrating or Measuring.
C11_OneModeActive == ~(calibrating /\ measuring)

\* Measuring, entered from Calibrating while a calibration prompt is still open
C11_Witness ==
    /\ measuring
    /\ ~calibrating
    /\ \E i \in DOMAIN dialogs : dialogs[i].kind = "calibration"

\* C12 (as claimed): the record a Save appends carries the number of records
\* the ledger holds for its machine and option at that moment, plus one.
C12_NumberedAtCommit ==
    [][\A i \in DialogIds, outcome \in SaveOutcomes :
            (on_save(i, outcome) /\ Len(measurements') = Len(measurements) + 1) =>
                LET m == measurements'[Len(measurements')]
                IN  m.measurement_number = NextNumber(measurements, m.machine, m.option)]_vars

\* C13 (as claimed): the gesture being drawn and the open prompts are never
\* more than one.
OpenGestures == IF pointer_down /\ (calibrating \/ measuring) THEN 1 ELSE 0

C13_OneGestureAtATime == OpenGestures + Len(dialogs) <= 1

\* C14 (as claimed): whenever no drag is open and no prompt is pending, the
\* held-frame latch is released.
C14_LatchReleased ==
    (~pointer_down /\ dialogs = <<>>) => ~measurement_in_progress

\* C15 (as claimed): whenever no drag is open and no prompt is pending, the
\* start and current point of the drag are unset.
C15_DragCleared ==
    (~pointer_down /\ dialogs = <<>>) =>
        (start_point = NoPoint /\ current_point = NoPoint)

\* C16 (as claimed): a session in Calibrating or Measuring never steps back to
\* Idle.
C16_NeverBackToIdle ==
    [][(calibrating \/ measuring) => (calibrating' \/ measuring')]_vars

\* C17 (as claimed): confirming a calibration prompt of a drag of non-zero
\* length with a non-numeric or non-positive known length changes neither the
\* factor in memory, nor the persisted factor, nor the mode.
C17_InvalidLengthRejected ==
    [][\A i \in DialogIds, text \in LengthTexts :
            (/\ confirm(i, text)
             /\ dialogs[i].pixels.sq # 0
             /\ (~IsNumeric(text) \/ ParseLength(text) <= 0)) =>
                /\ calibration_factor' = calibration_factor
                /\ calibration_file' = calibration_file
                /\ calibrating' = calibrating]_vars

\* C18: a pointer-up in Measuring mode with the Machine entry empty opens no
\* save prompt (so no pending record) and leaves the mode, the factor, the
\* ledger and the log as they were.
C18_NoSubjectNoRecord ==
    [][\A p \in LedgerPoints :
            (/\ on_release(p)
             /\ measuring
             /\ start_point # NoPoint
             /\ machine_var = "") =>
                /\ dialogs' = dialogs
                /\ measuring' /\ ~calibrating'
                /\ calibration_factor' = calibration_factor
                /\ calibration_file' = calibration_file
                /\ measurements' = measurements
                /\ csv_rows' = csv_rows]_vars

\* a gesture was made in Measuring mode and the pointer is up again; the
\* Machine entry is empty, nothing was recorded and no prompt is open
C18_Witness ==
    /\ measuring
    /\ machine_var = ""
    /\ start_point # NoPoint
    /\ ~pointer_down
    /\ measurement_in_progress
    /\ dialogs = <<>>
    /\ measurements = <<>>
    /\ csv_rows = <<>>

\* C19: the distance a gesture from start_point to p gives is negative exactly
\* when the native-space differences dx, dy have (|dx| > |dy| and dx < 0) or
\* (|dx| <= |dy| and dy < 0); its square is dx^2 + dy^2; a gesture of no length
\* gives 0, not negative.  (dx, dy over the common denominator CanvasW * CanvasH.)
C19_AxisDominance ==
    [][\A p \in Grid :
            (on_release(p) /\ calibrating /\ start_point # NoPoint) =>
                LET d  == dialogs'[Len(dialogs')].pixels
                    x1 == start_point[1] * original_size[1] * CanvasH
                    x2 == p[1] * original_size[1] * CanvasH
                    y1 == start_point[2] * original_size[2] * CanvasW
                    y2 == p[2] * original_size[2] * CanvasW
                    dx == x2 - x1
                    dy == y2 - y1
                IN  /\ Len(dialogs') = Len(dialogs) + 1
                    /\ d.neg <=> \/ (Abs(dx) > Abs(dy) /\ dx < 0)
                                 \/ (Abs(dx) <= Abs(dy) /\ dy < 0)
                    /\ d.sq = dx * dx + dy * dy
                    /\ (p = start_point) => (d.sq = 0 /\ ~d.neg)]_vars

\* the prompt of a gesture from (0,2) to (1,0) on a live feed: an exact
\* diagonal in native space (dx = 2, dy = -2), up and to the right
C19_Witness ==
    /\ start_point = <<0, 2>>
    /\ original_size = <<CamW, CamH>>
    /\ \E i \in DOMAIN dialogs :
            /\ dialogs[i].kind = "calibration"
            /\ dialogs[i].pixels = Dist(TRUE, 2 * (CamW * CanvasH) * (CamW * CanvasH))

\* C20 (as claimed): in Measuring mode the factor is set and not zero.
C20_MeasuringHasFactor ==
    measuring => calibration_factor.kind \notin {"none", "zero"}

====
